---- MODULE Spec2Model ----
(***************************************************************************)
(* Model of gpu_monitor.py: a fleet poll that runs get_host_gpu_info for   *)
(* every ssh host on a ThreadPoolExecutor.  Each host task issues the      *)
(* device query (nvidia-smi -q -x), converts the XML report with           *)
(* etree_to_dict, extracts per-device memory and processes, and, when      *)
(* there are pids, issues one owner query (ps -o user= -p ...) and         *)
(* attaches the user names.                                                *)
(*                                                                         *)
(* Python strings whose content the program inspects (text of XML          *)
(* elements, command output) are sequences of one-character strings.       *)
(* Tags and dictionary keys of the XML report are TLA+ strings.            *)
(***************************************************************************)
EXTENDS Integers, Sequences, FiniteSets, TLC

(***************************************************************************)
(* Bounds of the model.                                                    *)
(***************************************************************************)
MaxHosts == 2
MaxWorkers == 2
MaxGpus == 2
MaxProcs == 2
MaxChildren == 2

(***************************************************************************)
(* Python values: None, str, dict (insertion ordered list of key/value     *)
(* pairs) and list.                                                        *)
(***************************************************************************)
PyNone == [t |-> "None", v |-> <<>>]
PyStr(s) == [t |-> "str", v |-> s]
PyDict(items) == [t |-> "dict", v |-> items]
PyList(xs) == [t |-> "list", v |-> xs]

\* Outcome of evaluating a Python expression: a value or a raised exception.
Ok(x) == [exc |-> "ok", val |-> x]
Raise(e) == [exc |-> e, val |-> PyNone]

\* bool(x) of a Python value: None, "", {} and [] are false.
Truthy(x) == x.t # "None" /\ x.v # <<>>

(***************************************************************************)
(* Ordered dictionaries as sequences of <<key, value>> pairs.              *)
(***************************************************************************)
DictHas(items, k) == \E i \in 1..Len(items) : items[i][1] = k
DictGet(items, k) == items[CHOOSE i \in 1..Len(items) : items[i][1] = k][2]
\* d[k] = x : an existing key keeps its position, a new key goes last.
DictSet(items, k, x) ==
    IF DictHas(items, k)
    THEN [i \in 1..Len(items) |-> IF items[i][1] = k THEN <<k, x>> ELSE items[i]]
    ELSE Append(items, <<k, x>>)
RECURSIVE DictUpdate(_, _)
DictUpdate(items, pairs) ==
    IF pairs = <<>> THEN items
    ELSE DictUpdate(DictSet(items, pairs[1][1], pairs[1][2]), Tail(pairs))

(***************************************************************************)
(* Python subscripting and len() with the exceptions they raise.           *)
(***************************************************************************)
\* x[k] for a str key k
GetItem(x, k) ==
    IF x.t = "dict"
    THEN IF DictHas(x.v, k) THEN Ok(DictGet(x.v, k)) ELSE Raise("KeyError")
    ELSE Raise("TypeError")
\* x[i] for an int index i >= 0 (0-based as in Python)
GetIndex(x, i) ==
    CASE x.t = "list" -> IF i < Len(x.v) THEN Ok(x.v[i + 1]) ELSE Raise("IndexError")
      [] x.t = "str" -> IF i < Len(x.v) THEN Ok(PyStr(<<x.v[i + 1]>>)) ELSE Raise("IndexError")
      [] x.t = "dict" -> Raise("KeyError")
      [] OTHER -> Raise("TypeError")
PyLen(x) == IF x.t = "None" THEN Raise("TypeError") ELSE Ok(Len(x.v))

(***************************************************************************)
(* str methods: strip(), split(), split(sep), int(str)                     *)
(***************************************************************************)
Whitespace == {" ", "\t", "\n"}
RECURSIVE lstrip(_)
lstrip(s) == IF s # <<>> /\ Head(s) \in Whitespace THEN lstrip(Tail(s)) ELSE s
RECURSIVE rstrip(_)
rstrip(s) ==
    IF s # <<>> /\ s[Len(s)] \in Whitespace THEN rstrip(SubSeq(s, 1, Len(s) - 1)) ELSE s
strip(s) == rstrip(lstrip(s))

\* s.split(): the maximal runs of non-whitespace characters
RECURSIVE split_ws(_, _, _)
split_ws(s, cur, acc) ==
    IF s = <<>> THEN (IF cur = <<>> THEN acc ELSE Append(acc, cur))
    ELSE IF Head(s) \in Whitespace
         THEN split_ws(Tail(s), <<>>, IF cur = <<>> THEN acc ELSE Append(acc, cur))
         ELSE split_ws(Tail(s), Append(cur, Head(s)), acc)
split(s) == split_ws(s, <<>>, <<>>)

\* s.split(sep) for a one-character separator: empty pieces are kept
RECURSIVE split_sep(_, _, _, _)
split_sep(s, sep, cur, acc) ==
    IF s = <<>> THEN Append(acc, cur)
    ELSE IF Head(s) = sep
         THEN split_sep(Tail(s), sep, <<>>, Append(acc, cur))
         ELSE split_sep(Tail(s), sep, Append(cur, Head(s)), acc)
split_on(s, sep) == split_sep(s, sep, <<>>, <<>>)

DigitChars == <<"0", "1", "2", "3", "4", "5", "6", "7", "8", "9">>
IsDigit(c) == \E i \in 1..10 : DigitChars[i] = c
DigitVal(c) == (CHOOSE i \in 1..10 : DigitChars[i] = c) - 1
RECURSIVE DecimalVal(_, _)
DecimalVal(s, acc) ==
    IF s = <<>> THEN acc ELSE DecimalVal(Tail(s), 10 * acc + DigitVal(Head(s)))
\* int(s): optional sign and decimal digits, anything else is a ValueError
int_of(s) ==
    LET body == strip(s)
        signed == body # <<>> /\ body[1] \in {"+", "-"}
        digits == IF signed THEN Tail(body) ELSE body
    IN IF digits = <<>> \/ \E i \in 1..Len(digits) : ~IsDigit(digits[i])
       THEN Raise("ValueError")
       ELSE Ok(IF signed /\ body[1] = "-" THEN 0 - DecimalVal(digits, 0)
                                        ELSE DecimalVal(digits, 0))

(***************************************************************************)
(* XML elements (xml.etree.ElementTree.Element): tag, attrib, text and     *)
(* children.  text is PyNone or a PyStr.                                   *)
(***************************************************************************)
Elem(tag, attrib, text, children) ==
    [tag |-> tag, attrib |-> attrib, text |-> text, children |-> children]

\* a defaultdict whose lists grow at the front
DDAppend_prepends(dd, k, x) ==
    IF DictHas(dd, k) THEN DictSet(dd, k, <<x>> \o DictGet(dd, k))
    ELSE Append(dd, <<k, <<x>>>>)

\* dd[k].append(x) on the defaultdict(list) of etree_to_dict
DDAppend(dd, k, x) ==
    IF DictHas(dd, k) THEN DictSet(dd, k, Append(DictGet(dd, k), x))
    ELSE Append(dd, <<k, <<x>>>>)
RECURSIVE DDCollect(_, _)
DDCollect(dd, dcs) ==
    IF dcs = <<>> THEN dd
    ELSE DDCollect(DDAppend(dd, dcs[1].v[1][1], dcs[1].v[1][2]), Tail(dcs))

\* etree_to_dict(t): the one-key dictionary {t.tag: value}
RECURSIVE etree_to_dict(_)
etree_to_dict(t) ==
    LET children == t.children
        d0 == IF t.attrib # <<>> THEN PyDict(<<>>) ELSE PyNone
        dd == DDCollect(<<>>, [i \in 1..Len(children) |-> etree_to_dict(children[i])])
        d1 == IF children # <<>>
              THEN PyDict([i \in 1..Len(dd) |->
                              <<dd[i][1], IF Len(dd[i][2]) = 1 THEN dd[i][2][1]
                                                              ELSE PyList(dd[i][2])>>])
              ELSE d0
        d2 == IF t.attrib # <<>>
              THEN PyDict(DictUpdate(d1.v, [i \in 1..Len(t.attrib) |->
                              <<"@" \o t.attrib[i][1], PyStr(t.attrib[i][2])>>]))
              ELSE d1
        d3 == IF Truthy(t.text)
              THEN LET text == strip(t.text.v)
                   IN IF children # <<>> \/ t.attrib # <<>>
                      THEN (IF text # <<>> THEN PyDict(DictSet(d2.v, "#text", PyStr(text)))
                                           ELSE d2)
                      ELSE PyStr(text)
              ELSE d2
    IN PyDict(<< <<t.tag, d3>> >>)

(***************************************************************************)
(* do_cmd: subprocess.check_output with stderr merged into the output and  *)
(* a timeout.  proc is what the child process did: kind "exit0",           *)
(* "nonzero" (CalledProcessError), "timeout" (TimeoutExpired) or "oserror" *)
(* (the child could not be spawned), and the bytes it wrote.               *)
(***************************************************************************)
\* a do_cmd whose except clauses do not set ret to False
do_cmd_unchecked(proc) ==
    IF proc.kind = "oserror" THEN Raise("OSError")
    ELSE Ok([ret |-> TRUE, output |-> proc.output])
EmptyOutput == <<>>
do_cmd(proc) ==
    CASE proc.kind = "exit0" -> Ok([ret |-> TRUE, output |-> proc.output])
      [] proc.kind \in {"nonzero", "timeout"} -> Ok([ret |-> FALSE, output |-> EmptyOutput])
      [] OTHER -> Raise("OSError")

(***************************************************************************)
(* get_host_gpu_info, lines 67-101: conversion of the device report and    *)
(* extraction of host_gpu_usage and unique_pids.                           *)
(* The state of the extraction is [exc, usage, pids].                      *)
(***************************************************************************)
Extracted(usage, pidset) == [exc |-> "ok", usage |-> usage, pids |-> pidset]
Failed(e) == [exc |-> e, usage |-> <<>>, pids |-> {}]

\* ET.fromstring(xml_str): the output of the device query is either the
\* text of an XML document, given by its root element, or not XML at all.
fromstring(xml_str) == IF xml_str.xml THEN Ok(xml_str.root) ELSE Raise("ParseError")

\* str(x) inside the f-string of line 78.  minor_number is a leaf element in
\* every report, so x is a str or None; a container prints as its type name.
format_value(x) ==
    CASE x.t = "str" -> x.v
      [] x.t = "None" -> <<"N", "o", "n", "e">>
      [] OTHER -> <<"<", x.t, ">">>
device_name(minor) == <<"c", "u", "d", "a", ":">> \o format_value(minor)

\* int(value.split()[0])
leading_int(value) ==
    IF value.t # "str" THEN Raise("AttributeError")
    ELSE LET parts == split(value.v)
         IN IF parts = <<>> THEN Raise("IndexError") ELSE int_of(parts[1])

\* line 84: {key: int(value.split()[0]) for (key, value) in fb.items()}
RECURSIVE memory_items(_, _)
memory_items(items, acc) ==
    IF items = <<>> THEN Ok(acc)
    ELSE LET n == leading_int(items[1][2])
         IN IF n.exc # "ok" THEN Raise(n.exc)
            ELSE memory_items(Tail(items), DictSet(acc, items[1][1], n.val))
memory_of(fb) == IF fb.t # "dict" THEN Raise("AttributeError") ELSE memory_items(fb.v, <<>>)

\* iter(x): the items a for loop visits
iterate(x) ==
    CASE x.t = "list" -> Ok(x.v)
      [] x.t = "str" -> Ok([i \in 1..Len(x.v) |-> PyStr(<<x.v[i]>>)])
      [] x.t = "dict" -> Ok([i \in 1..Len(x.v) |-> PyStr(<<x.v[i][1]>>)])
      [] OTHER -> Raise("TypeError")

\* a pid set that holds only the pid added last
add_pid_replaces(pids, pid) == {pid}

\* unique_pids.add(process_info["pid"])
add_pid(pids, pid) == pids \cup {pid}

\* lines 96-101: the loop over one process_infos value
\* st is [exc, procs, pids]
RECURSIVE process_loop(_, _)
process_loop(infos, st) ==
    IF infos = <<>> \/ st.exc # "ok" THEN st
    ELSE LET process_info == infos[1]
             pid == GetItem(process_info, "pid")
             hashable == pid.val.t \in {"str", "None"}
             mem == GetItem(process_info, "used_memory")
             used == leading_int(mem.val)
             bad(e) == [exc |-> e, procs |-> st.procs, pids |-> st.pids]
         IN IF pid.exc # "ok" THEN bad(pid.exc)
            ELSE IF ~hashable THEN bad("TypeError")
            ELSE IF mem.exc # "ok" THEN bad(mem.exc)
            ELSE IF used.exc # "ok" THEN bad(used.exc)
            ELSE process_loop(Tail(infos),
                     [exc |-> "ok",
                      procs |-> Append(st.procs, [pid |-> pid.val, used_memory |-> used.val]),
                      pids |-> add_pid(st.pids, pid.val)])

\* line 95: for process_infos in gpu_info["processes"].values()
RECURSIVE values_loop(_, _)
values_loop(items, st) ==
    IF items = <<>> \/ st.exc # "ok" THEN st
    ELSE LET process_infos == iterate(items[1][2])
         IN IF process_infos.exc # "ok"
            THEN [exc |-> process_infos.exc, procs |-> st.procs, pids |-> st.pids]
            ELSE values_loop(Tail(items), process_loop(process_infos.val, st))

\* the extraction without the re-wrap of lines 92-93
wrap_process_info_never(processes) ==
    LET info == GetItem(processes, "process_info")
    IN IF info.exc # "ok" THEN Raise(info.exc) ELSE Ok(processes)

\* lines 92-93: a single process_info record is wrapped into a list
wrap_process_info(processes) ==
    LET info == GetItem(processes, "process_info")
    IN IF info.exc # "ok" THEN Raise(info.exc)
       ELSE IF info.val.t = "dict"
            THEN Ok(PyDict(DictSet(processes.v, "process_info", PyList(<<info.val>>))))
            ELSE Ok(processes)

\* a loop body without the "continue" of lines 87-88
no_processes_never(n) == FALSE

\* line 87: len(gpu_info["processes"]) == 0
no_processes(n) == n = 0

\* lines 77-101: the body of the loop over gpu_idx
gpu_step(gpu_dict, gpu_idx, st) ==
    LET gpus == GetItem(gpu_dict, "gpu")
        gpu_info == GetIndex(gpus.val, gpu_idx)
        minor == GetItem(gpu_info.val, "minor_number")
        device == device_name(minor.val)
        driver == GetItem(gpu_dict, "driver_version")
        cuda == GetItem(gpu_dict, "cuda_version")
        fb == GetItem(gpu_info.val, "fb_memory_usage")
        memory == memory_of(fb.val)
        entry(procs) == [driver_version |-> driver.val, cuda_version |-> cuda.val,
                         memory |-> memory.val, processes |-> procs]
        usage0 == DictSet(st.usage, device, entry(<<>>))
        processes == GetItem(gpu_info.val, "processes")
        nproc == PyLen(processes.val)
        wrapped == wrap_process_info(processes.val)
        looped == values_loop(wrapped.val.v, [exc |-> "ok", procs |-> <<>>, pids |-> st.pids])
    IN IF gpus.exc # "ok" THEN Failed(gpus.exc)
       ELSE IF gpu_info.exc # "ok" THEN Failed(gpu_info.exc)
       ELSE IF minor.exc # "ok" THEN Failed(minor.exc)
       ELSE IF driver.exc # "ok" THEN Failed(driver.exc)
       ELSE IF cuda.exc # "ok" THEN Failed(cuda.exc)
       ELSE IF fb.exc # "ok" THEN Failed(fb.exc)
       ELSE IF memory.exc # "ok" THEN Failed(memory.exc)
       ELSE IF processes.exc # "ok" THEN Failed(processes.exc)
       ELSE IF nproc.exc # "ok" THEN Failed(nproc.exc)
       ELSE IF no_processes(nproc.val) THEN Extracted(usage0, st.pids)
       ELSE IF wrapped.exc # "ok" THEN Failed(wrapped.exc)
       ELSE IF looped.exc # "ok" THEN Failed(looped.exc)
       ELSE Extracted(DictSet(st.usage, device, entry(looped.procs)), looped.pids)

\* line 76: for gpu_idx in range(len(gpu_dict["gpu"]))
RECURSIVE gpu_loop(_, _, _, _)
gpu_loop(gpu_dict, gpu_idx, n, st) ==
    IF gpu_idx >= n \/ st.exc # "ok" THEN st
    ELSE gpu_loop(gpu_dict, gpu_idx + 1, n, gpu_step(gpu_dict, gpu_idx, st))

\* lines 68-101
extract(xml_str) ==
    LET root == fromstring(xml_str)
        gpu_dict == GetItem(etree_to_dict(root.val), "nvidia_smi_log")
        gpus == GetItem(gpu_dict.val, "gpu")
        n == PyLen(gpus.val)
    IN IF root.exc # "ok" THEN Failed(root.exc)
       ELSE IF gpu_dict.exc # "ok" THEN Failed(gpu_dict.exc)
       ELSE IF gpus.exc # "ok" THEN Failed(gpus.exc)
       ELSE IF n.exc # "ok" THEN Failed(n.exc)
       ELSE gpu_loop(gpu_dict.val, 0, n.val, Extracted(<<>>, {}))

(***************************************************************************)
(* Device reports: the documents nvidia-smi -q -x can print.               *)
(* A gpu is described by its minor number and its processes, a process by  *)
(* its pid and the text of its used_memory element.                        *)
(***************************************************************************)
Indent == PyStr(<<"\n", "\t">>)
Leaf(tag, s) == Elem(tag, <<>>, PyStr(s), <<>>)
MiB(digit) == <<digit, " ", "M", "i", "B">>

Pids == {<<"7">>, <<"8">>, <<"9">>}
Minors == {<<"0">>, <<"1">>}
\* the user that owns a process on the remote host
OwnerOf(pid) ==
    CASE pid = <<"7">> -> <<"a">>
      [] pid = <<"8">> -> <<"b">>
      [] OTHER -> <<"c">>

ProcessInfoElem(p) ==
    Elem("process_info", <<>>, Indent, <<Leaf("pid", p.pid), Leaf("used_memory", p.used_memory)>>)
\* <processes> without process_info children holds only white space
ProcessesElem(procs) ==
    Elem("processes", <<>>, Indent, [j \in 1..Len(procs) |-> ProcessInfoElem(procs[j])])
MemoryElem ==
    Elem("fb_memory_usage", <<>>, Indent,
         <<Leaf("total", MiB("8")), Leaf("used", MiB("2")), Leaf("free", MiB("6"))>>)
GpuElem(g) ==
    Elem("gpu", << <<"id", <<"0", ":", g.minor[1]>> >> >>, Indent,
         <<Leaf("minor_number", g.minor), MemoryElem, ProcessesElem(g.procs)>>)
DriverVersion == <<"5", "3", "5">>
CudaVersion == <<"1", "2">>
ReportElem(tag, versions, gpus) ==
    Elem(tag, <<>>, Indent, versions \o [i \in 1..Len(gpus) |-> GpuElem(gpus[i])])
Versions == <<Leaf("driver_version", DriverVersion), Leaf("cuda_version", CudaVersion)>>
Report(gpus) == [xml |-> TRUE, root |-> ReportElem("nvidia_smi_log", Versions, gpus)]

SeqsUpTo(S, n) == UNION {[1..m -> S] : m \in 0..n}
ProcSpecs == [pid : Pids, used_memory : {MiB("5")}]
\* the processes of a gpu: no pid twice on one gpu, listed by increasing pid
Ascending(procs) == \A j \in 1..(Len(procs) - 1) : 
    DecimalVal(procs[j].pid, 0) < DecimalVal(procs[j + 1].pid, 0)
GpuSpecs ==
    [minor : Minors, procs : {procs \in SeqsUpTo(ProcSpecs, MaxProcs) : Ascending(procs)}]
\* every report with at most MaxGpus gpus of at most MaxProcs processes each
WellFormedReports == {Report(gpus) : gpus \in SeqsUpTo(GpuSpecs, MaxGpus)}

\* reports of an unexpected shape
Proc(pid, used) == [pid |-> pid, used_memory |-> used]
Gpu(minor, procs) == [minor |-> minor, procs |-> procs]
TwoGpus == <<Gpu(<<"0">>, <<Proc(<<"7">>, MiB("5"))>>), Gpu(<<"1">>, <<>>)>>
NotXml == [xml |-> FALSE, root |-> PyNone]
WrongRoot == [xml |-> TRUE, root |-> ReportElem("html", Versions, TwoGpus)]
NoDriverVersion ==
    [xml |-> TRUE,
     root |-> ReportElem("nvidia_smi_log", <<Leaf("cuda_version", CudaVersion)>>, TwoGpus)]
UsedMemoryNA ==
    Report(<<Gpu(<<"0">>, <<Proc(<<"7">>, <<"N", "/", "A">>)>>), Gpu(<<"1">>, <<>>)>>)
MalformedReports == {NotXml, WrongRoot, NoDriverVersion, UsedMemoryNA}

DeviceOutputs == WellFormedReports \cup MalformedReports

(***************************************************************************)
(* usernames_from_pids and the rest of get_host_gpu_info                   *)
(***************************************************************************)
Range(f) == {f[i] : i \in DOMAIN f}
Min(a, b) == IF a < b THEN a ELSE b

\* a command that names only the first pid of the list
owner_cmd_first_pid(pids) == <<format_value(pids[1])>>

\* line 46: one "ps -o user= -p <pid>" per pid, joined by ";".  The command
\* is modelled by the sequence of the pid texts it names.
owner_cmd(pids) == [i \in 1..Len(pids) |-> format_value(pids[i])]

\* the pairing of line 50 done against the pids in the opposite order
zip_dict_reversed(pids, lines) ==
    DictUpdate(<<>>, [i \in 1..Min(Len(pids), Len(lines)) |->
                         <<pids[Len(pids) + 1 - i], PyStr(lines[i])>>])

\* line 50: {pid: user for pid, user in zip(pids, users.split("\n"))}
zip_dict(pids, lines) ==
    DictUpdate(<<>>, [i \in 1..Min(Len(pids), Len(lines)) |-> <<pids[i], PyStr(lines[i])>>])

\* lines 47-50; proc is what the child process of the owner query did
usernames_from_pids(pids, proc) ==
    LET r == do_cmd(proc)
    IN IF r.exc # "ok" THEN Raise(r.exc)
       ELSE IF ~r.val.ret THEN Ok([ret |-> FALSE, dict |-> <<>>])
       ELSE Ok([ret |-> TRUE, dict |-> zip_dict(pids, split_on(r.val.output, "\n"))])
\* an enrichment that keeps only the process entries whose pid has a user
attach_users_resolved_only(usage, pid_user_dict) ==
    Ok([d \in 1..Len(usage) |->
          <<usage[d][1],
            [usage[d][2] EXCEPT !.processes =
                LET kept == SelectSeq(usage[d][2].processes,
                                      LAMBDA p : /\ DictHas(pid_user_dict, p.pid)
                                                 /\ DictGet(pid_user_dict, p.pid).v # <<>>)
                IN [j \in 1..Len(kept) |->
                       [pid |-> kept[j].pid,
                        used_memory |-> kept[j].used_memory,
                        user |-> DictGet(pid_user_dict, kept[j].pid)]]]>>])

\* lines 110-112: process["user"] = pid_user_dict[process["pid"]]
attach_users(usage, pid_user_dict) ==
    IF \E d \in 1..Len(usage) : \E j \in 1..Len(usage[d][2].processes) :
           ~DictHas(pid_user_dict, usage[d][2].processes[j].pid)
    THEN Raise("KeyError")
    ELSE Ok([d \in 1..Len(usage) |->
               <<usage[d][1],
                 [usage[d][2] EXCEPT !.processes =
                     [j \in 1..Len(usage[d][2].processes) |->
                         [pid |-> usage[d][2].processes[j].pid,
                          used_memory |-> usage[d][2].processes[j].used_memory,
                          user |-> DictGet(pid_user_dict, usage[d][2].processes[j].pid)]]]>>])

\* What a host task hands to its future: a returned report or an exception.
Returned(report) == [st |-> "returned", report |-> report, exc |-> "ok"]
Raised(e) == [st |-> "raised", report |-> <<>>, exc |-> e]
Pending == [st |-> "pending", report |-> <<>>, exc |-> "ok"]
Cancelled == [st |-> "cancelled", report |-> <<>>, exc |-> "ok"]

\* lines 60-104: the device query and the extraction.  next is "owner" when
\* the task goes on to the owner query, else the task ends with result.
TaskEnds(res, usage) == [next |-> "done", result |-> res, usage |-> usage, pids |-> {}]
\* lines 103-104, e being the outcome of the extraction
after_extract(e) ==
    IF e.exc # "ok" THEN TaskEnds(Raised(e.exc), <<>>)
    ELSE IF Cardinality(e.pids) = 0 THEN TaskEnds(Returned(e.usage), e.usage)
    ELSE [next |-> "owner", result |-> Pending, usage |-> e.usage, pids |-> e.pids]
\* lines 63-64, r being the outcome of do_cmd
after_do_cmd(r) ==
    IF r.exc # "ok" THEN TaskEnds(Raised(r.exc), <<>>)
    ELSE IF ~r.val.ret THEN TaskEnds(Returned(<<>>), <<>>)
    ELSE after_extract(extract(r.val.output))
device_stage(proc) == after_do_cmd(do_cmd(proc))

\* an owner stage that gives up the whole report when the owner query fails
owner_stage_drops_report(usage, pids, proc) ==
    LET r == usernames_from_pids(pids, proc)
        enriched == attach_users(usage, r.val.dict)
    IN IF r.exc # "ok" THEN Raised(r.exc)
       ELSE IF ~r.val.ret THEN Returned(<<>>)
       ELSE IF enriched.exc # "ok" THEN Raised(enriched.exc)
       ELSE Returned(enriched.val)

\* lines 106-115: the owner query and the enrichment of host_gpu_usage
owner_stage(usage, pids, proc) ==
    LET r == usernames_from_pids(pids, proc)
        enriched == attach_users(usage, r.val.dict)
    IN IF r.exc # "ok" THEN Raised(r.exc)
       ELSE IF ~r.val.ret THEN Returned(usage)
       ELSE IF enriched.exc # "ok" THEN Raised(enriched.exc)
       ELSE Returned(enriched.val)

(***************************************************************************)
(* The remote side: what the child process of each query can do.           *)
(***************************************************************************)
NoProc == [kind |-> "none", output |-> EmptyOutput]
\* text that is not a device report, e.g. an error message of ssh
ErrorText == NotXml
DeviceProcs(outputs) ==
    {[kind |-> "exit0", output |-> o] : o \in outputs}
    \cup {[kind |-> "nonzero", output |-> ErrorText],
          [kind |-> "timeout", output |-> ErrorText],
          [kind |-> "oserror", output |-> ErrorText]}

\* ps prints the user of a live process on a line of its own and nothing
\* for a process that has exited; the exit status of "a;b" is that of b.
RECURSIVE ps_output(_, _)
ps_output(cmd, alive) ==
    IF cmd = <<>> THEN <<>>
    ELSE (IF cmd[1] \in alive THEN OwnerOf(cmd[1]) \o <<"\n">> ELSE <<>>)
         \o ps_output(Tail(cmd), alive)
\* a warning line of ssh on stderr, which do_cmd merges into the output
Banner == <<"W", "\n">>
OwnerProcs(cmd) ==
    {[kind |-> IF cmd[Len(cmd)] \in alive THEN "exit0" ELSE "nonzero",
      output |-> (IF banner THEN Banner ELSE <<>>) \o ps_output(cmd, alive)] :
        alive \in SUBSET Range(cmd), banner \in BOOLEAN}
    \cup {[kind |-> "timeout", output |-> EmptyOutput],
          [kind |-> "oserror", output |-> EmptyOutput]}

\* list(unique_pids): a set is listed in an arbitrary order
Listings(S) == {f \in [1..Cardinality(S) -> S] : Range(f) = S}

(***************************************************************************)
(* The fleet poll, lines 204-207.                                          *)
(*                                                                         *)
(* calls[i] is the sequence of the commands that task i has run through    *)
(* do_cmd.  tree and tree_dict are the argument and the result of          *)
(* etree_to_dict when it is applied on its own (SpecTree).                 *)
(***************************************************************************)
VARIABLES hosts, max_workers, poll, work_queue, pc, dev_proc, own_proc,
          host_gpu_usage, pid_list, future, results, calls, tree, tree_dict
vars == <<hosts, max_workers, poll, work_queue, pc, dev_proc, own_proc,
          host_gpu_usage, pid_list, future, results, calls, tree, tree_dict>>

Tasks == 1..Len(hosts)
HostName(i) == "GPU" \o ToString(i)
InFlight == {i \in Tasks : pc[i] \in {"device", "owner"}}

\* no tree is converted on its own in a poll
NoTree == Elem("", <<>>, PyNone, <<>>)

\* the reports of the fleet poll: a small selection of the device outputs
OnePid == Report(<<Gpu(<<"0">>, <<Proc(<<"7">>, MiB("5"))>>)>>)
TwoPids ==
    Report(<<Gpu(<<"0">>, <<Proc(<<"7">>, MiB("5"))>>), Gpu(<<"1">>, <<Proc(<<"8">>, MiB("5"))>>)>>)
FleetOutputs == {NotXml, OnePid, TwoPids}

Init ==
    /\ hosts \in {[i \in 1..n |-> HostName(i)] : n \in 0..MaxHosts}
    /\ max_workers \in 1..MaxWorkers
    /\ poll = "init"
    /\ work_queue = <<>>
    /\ pc = [i \in Tasks |-> "new"]
    /\ dev_proc = [i \in Tasks |-> NoProc]
    /\ own_proc = [i \in Tasks |-> NoProc]
    /\ host_gpu_usage = [i \in Tasks |-> <<>>]
    /\ pid_list = [i \in Tasks |-> <<>>]
    /\ future = [i \in Tasks |-> Pending]
    /\ results = <<>>
    /\ calls = [i \in Tasks |-> <<>>]
    /\ tree = NoTree
    /\ tree_dict = PyNone

\* executor.map submits one call of get_host_gpu_info per host, in order
Map ==
    /\ poll = "init"
    /\ poll' = "collecting"
    /\ work_queue' = [i \in Tasks |-> i]
    /\ pc' = [i \in Tasks |-> "queued"]
    /\ UNCHANGED <<tree, tree_dict, hosts, max_workers, dev_proc, own_proc, host_gpu_usage, pid_list,
                   future, results, calls>>

\* a pool that starts a thread for every work item
WorkerAvailable_unbounded == TRUE

\* ThreadPoolExecutor(max_workers): a work item leaves the queue only when
\* one of the max_workers threads is free
WorkerAvailable == Cardinality(InFlight) < max_workers

StartTask ==
    /\ work_queue # <<>>
    /\ WorkerAvailable
    /\ pc' = [pc EXCEPT ![Head(work_queue)] = "device"]
    /\ work_queue' = Tail(work_queue)
    /\ UNCHANGED <<tree, tree_dict, hosts, max_workers, poll, dev_proc, own_proc, host_gpu_usage, pid_list,
                   future, results, calls>>

\* the commands that do_cmd is called with
device_cmd == [query |-> "device", pids |-> <<>>]
ps_cmd(pids) == [query |-> "owner", pids |-> pids]

\* a host_gpu_usage that is a module global, shared by the tasks
DeviceQueryStep_shared(i, proc, s) ==
    /\ calls' = [calls EXCEPT ![i] = Append(@, device_cmd)]
    /\ dev_proc' = [dev_proc EXCEPT ![i] = proc]
    /\ pc' = [pc EXCEPT ![i] = s.next]
    /\ future' = [future EXCEPT ![i] = s.result]
    /\ host_gpu_usage' = [j \in Tasks |-> s.usage]
    /\ \E order \in Listings(s.pids) : pid_list' = [pid_list EXCEPT ![i] = order]

\* get_host_gpu_info up to the owner query; s is the outcome of the stage
DeviceQueryStep(i, proc, s) ==
    /\ calls' = [calls EXCEPT ![i] = Append(@, device_cmd)]
    /\ dev_proc' = [dev_proc EXCEPT ![i] = proc]
    /\ pc' = [pc EXCEPT ![i] = s.next]
    /\ future' = [future EXCEPT ![i] = s.result]
    /\ host_gpu_usage' = [host_gpu_usage EXCEPT ![i] = s.usage]
    /\ \E order \in Listings(s.pids) : pid_list' = [pid_list EXCEPT ![i] = order]
DeviceQuery(i, outputs) ==
    /\ pc[i] = "device"
    /\ \E proc \in DeviceProcs(outputs) : DeviceQueryStep(i, proc, device_stage(proc))
    /\ UNCHANGED <<tree, tree_dict, hosts, max_workers, poll, work_queue, own_proc, results>>

\* get_host_gpu_info from the owner query to its return
OwnerQuery(i) ==
    /\ pc[i] = "owner"
    /\ \E proc \in OwnerProcs(owner_cmd(pid_list[i])) :
          /\ own_proc' = [own_proc EXCEPT ![i] = proc]
          /\ future' = [future EXCEPT ![i] = owner_stage(host_gpu_usage[i], pid_list[i], proc)]
    /\ pc' = [pc EXCEPT ![i] = "done"]
    /\ calls' = [calls EXCEPT ![i] = Append(@, ps_cmd(owner_cmd(pid_list[i])))]
    /\ UNCHANGED <<tree, tree_dict, hosts, max_workers, poll, work_queue, dev_proc, host_gpu_usage,
                   pid_list, results>>

\* list(executor.map(...)) takes the results in the order of the hosts
Collect ==
    /\ poll = "collecting"
    /\ Len(results) < Len(hosts)
    /\ future[Len(results) + 1].st = "returned"
    /\ results' = Append(results, future[Len(results) + 1].report)
    /\ UNCHANGED <<tree, tree_dict, hosts, max_workers, poll, work_queue, pc, dev_proc, own_proc,
                   host_gpu_usage, pid_list, future, calls>>

\* the exception of a host task is raised again in the main thread; the
\* futures that have not started are cancelled
CollectRaises ==
    /\ poll = "collecting"
    /\ Len(results) < Len(hosts)
    /\ future[Len(results) + 1].st = "raised"
    /\ poll' = "raised"
    /\ work_queue' = <<>>
    /\ pc' = [i \in Tasks |-> IF pc[i] = "queued" THEN "cancelled" ELSE pc[i]]
    /\ future' = [i \in Tasks |-> IF pc[i] = "queued" THEN Cancelled ELSE future[i]]
    /\ UNCHANGED <<tree, tree_dict, hosts, max_workers, dev_proc, own_proc, host_gpu_usage, pid_list,
                   results, calls>>

\* every host has been collected: the poll returns results
Finish ==
    /\ poll = "collecting"
    /\ Len(results) = Len(hosts)
    /\ poll' = "returned"
    /\ UNCHANGED <<tree, tree_dict, hosts, max_workers, work_queue, pc, dev_proc, own_proc, host_gpu_usage,
                   pid_list, future, results, calls>>

Next ==
    \/ Map
    \/ StartTask
    \/ \E i \in Tasks : DeviceQuery(i, FleetOutputs)
    \/ \E i \in Tasks : OwnerQuery(i)
    \/ Collect
    \/ CollectRaises
    \/ Finish

Spec == Init /\ [][Next]_vars

\* One host with every device report of the bounds.
InitHost == Init /\ Len(hosts) = 1 /\ max_workers = 1
NextHost ==
    \/ Map
    \/ StartTask
    \/ \E i \in Tasks : DeviceQuery(i, DeviceOutputs)
    \/ \E i \in Tasks : OwnerQuery(i)
    \/ Collect
    \/ CollectRaises
    \/ Finish
SpecHost == InitHost /\ [][NextHost]_vars

\* etree_to_dict on its own: the conversion of one tree of the bounds.
Tags == {"a", "b"}
Texts == {PyNone, PyStr(<<"x">>), PyStr(<<" ">>)}
Attribs == {<<>>, << <<"id", <<"1">> >> >>}
Leaves == {Elem(tag, attrib, text, <<>>) : tag \in Tags, attrib \in Attribs, text \in Texts}
Nested ==
    Elem("b", <<>>, Indent, <<Elem("a", <<>>, PyStr(<<"x">>), <<>>), Elem("a", <<>>, PyStr(<<"y">>), <<>>)>>)
Trees ==
    {Elem("r", attrib, text, children) :
        attrib \in Attribs, text \in Texts,
        children \in SeqsUpTo(Leaves \cup {Nested}, MaxChildren)}
InitTree ==
    /\ hosts = <<>> /\ max_workers = 1 /\ poll = "init" /\ work_queue = <<>>
    /\ pc = <<>> /\ dev_proc = <<>> /\ own_proc = <<>> /\ host_gpu_usage = <<>>
    /\ pid_list = <<>> /\ future = <<>> /\ results = <<>> /\ calls = <<>>
    /\ tree \in Trees
    /\ tree_dict = PyNone
Convert ==
    /\ tree # NoTree
    /\ tree_dict = PyNone
    /\ tree_dict' = etree_to_dict(tree)
    /\ UNCHANGED <<tree, hosts, max_workers, poll, work_queue, pc, dev_proc, own_proc,
                   host_gpu_usage, pid_list, future, results, calls>>
SpecTree == InitTree /\ [][Convert]_vars

(***************************************************************************)
(* The device report read directly from the document, for the statement of *)
(* the properties.                                                         *)
(***************************************************************************)
IsGpu(e) == e.tag = "gpu"
IsProcessInfo(e) == e.tag = "process_info"
Child(e, tag) == e.children[CHOOSE k \in 1..Len(e.children) : e.children[k].tag = tag]
GpuElems(doc) == SelectSeq(doc.root.children, IsGpu)
ProcElems(g) == SelectSeq(Child(g, "processes").children, IsProcessInfo)
\* the number in front of the unit of "<integer> <unit>"
Amount(text) ==
    LET k == CHOOSE k \in 1..Len(text) : text[k] = " " /\ \A m \in 1..(k - 1) : text[m] # " "
    IN DecimalVal(SubSeq(text, 1, k - 1), 0)
ReportedDevice(g) == <<"c", "u", "d", "a", ":">> \o Child(g, "minor_number").text.v
ReportedProcs(g) ==
    [j \in 1..Len(ProcElems(g)) |->
        [pid |-> Child(ProcElems(g)[j], "pid").text,
         used_memory |-> Amount(Child(ProcElems(g)[j], "used_memory").text.v)]]
ReportedMemory == << <<"total", 8>>, <<"used", 2>>, <<"free", 6>> >>
WithoutUser(p) == [pid |-> p.pid, used_memory |-> p.used_memory]
ProcsWithoutUser(procs) == [j \in 1..Len(procs) |-> WithoutUser(procs[j])]
\* every process entry of a report, device after device
RECURSIVE AllProcs(_)
AllProcs(report) ==
    IF report = <<>> THEN <<>> ELSE report[1][2].processes \o AllProcs(Tail(report))
DistinctDevices(gpus) ==
    \A a, b \in 1..Len(gpus) : a # b => ReportedDevice(gpus[a]) # ReportedDevice(gpus[b])
\* the positions of gpus whose device identifier no later gpu repeats
LastOfDevice(gpus) ==
    {a \in 1..Len(gpus) : \A b \in (a + 1)..Len(gpus) :
                              ReportedDevice(gpus[a]) # ReportedDevice(gpus[b])}

DeviceFailed(i) == dev_proc[i].kind \in {"nonzero", "timeout"}
DeviceSucceeded(i) == dev_proc[i].kind = "exit0"
OwnerFailed(i) == own_proc[i].kind \in {"nonzero", "timeout"}
OwnerSucceeded(i) == own_proc[i].kind = "exit0"
\* the extraction of lines 67-101 has run to its end without an exception
ExtractionDone(i) ==
    DeviceSucceeded(i) /\ (pc[i] = "owner" \/ own_proc[i] # NoProc \/ future[i].st = "returned")
TaskLocal(j) ==
    <<pc[j], dev_proc[j], own_proc[j], host_gpu_usage[j], pid_list[j], future[j], calls[j]>>

(***************************************************************************)
(* C1: the fleet poll returns exactly one result slot per host, and slot i *)
(* holds the report of hosts[i], whatever the completion order.            *)
(***************************************************************************)
C1_PollReturnsSlotPerHost ==
    /\ poll # "raised"
    /\ poll = "returned" =>
          /\ Len(results) = Len(hosts)
          /\ \A i \in Tasks : future[i].st = "returned" /\ results[i] = future[i].report

(***************************************************************************)
(* C2: a host whose device query fails (non-zero exit or timeout) gets the *)
(* empty report and no owner query, and the step in which its query fails  *)
(* changes nothing of the task of any other host.                          *)
(***************************************************************************)
C2_FailedHost ==
    \A i \in Tasks : DeviceFailed(i) =>
        /\ pc[i] = "done"
        /\ future[i] = Returned(<<>>)
        /\ own_proc[i] = NoProc
C2_OthersUntouched ==
    \A i \in Tasks : (dev_proc'[i] # dev_proc[i] /\ dev_proc'[i].kind \in {"nonzero", "timeout"})
        => \A j \in Tasks \ {i} : TaskLocal(j)' = TaskLocal(j)
C2_FailedQueryIsolated == [](C2_FailedHost) /\ [][C2_OthersUntouched]_vars
C2_Witness ==
    \E i, j \in Tasks :
        /\ i # j /\ DeviceFailed(i) /\ pc[i] = "done"
        /\ future[j].st = "returned" /\ AllProcs(future[j].report) # <<>>
        /\ poll = "returned" /\ results[i] = <<>> /\ results[j] = future[j].report

(***************************************************************************)
(* C3: a host whose device query succeeds with a malformed report gets an  *)
(* empty report, and the poll does not raise but returns a slot per host.  *)
(***************************************************************************)
C3_MalformedReportIsEmptySlot ==
    \A i \in Tasks :
        (DeviceSucceeded(i) /\ dev_proc[i].output \in MalformedReports) =>
            /\ future[i] = Returned(<<>>)
            /\ ~(poll = "raised" /\ Len(results) + 1 = i)

(***************************************************************************)
(* C4: the number of get_host_gpu_info calls that have started and not     *)
(* finished never exceeds max_workers.                                     *)
(***************************************************************************)
C4_InFlightBounded == Cardinality(InFlight) <= max_workers
C4_Witness == Cardinality(InFlight) = max_workers /\ work_queue # <<>>

(***************************************************************************)
(* C5: when the owner query fails entirely, the host's report is returned  *)
(* with every extracted process entry, each with pid and used_memory and   *)
(* without a user.                                                         *)
(***************************************************************************)
C5_OwnerFailureKeepsProcesses ==
    \A i \in Tasks : OwnerFailed(i) =>
        LET gpus == GpuElems(dev_proc[i].output)
            report == future[i].report
            procs == AllProcs(future[i].report)
        IN /\ future[i].st = "returned"
           /\ report = host_gpu_usage[i]
           /\ \A j \in 1..Len(procs) : DOMAIN procs[j] = {"pid", "used_memory"}
           /\ \A a \in LastOfDevice(gpus) :
                 /\ DictHas(report, ReportedDevice(gpus[a]))
                 /\ DictGet(report, ReportedDevice(gpus[a])).processes = ReportedProcs(gpus[a])
C5_Witness ==
    \E i \in Tasks :
        /\ OwnerFailed(i) /\ future[i].st = "returned"
        /\ Len(future[i].report) = 2
        /\ \A d \in 1..2 : Len(future[i].report[d][2].processes) >= 1

(***************************************************************************)
(* C6: when the owner query succeeds and its mapping lacks a pid of the    *)
(* report, the task returns its report, the entries of the missing pids    *)
(* have no user and the other entries have the user of the mapping.        *)
(***************************************************************************)
OwnerMapping(i) == usernames_from_pids(pid_list[i], own_proc[i]).val.dict
C6_MissingPidLeftWithoutUser ==
    \A i \in Tasks :
        (OwnerSucceeded(i) /\ \E k \in 1..Len(pid_list[i]) : ~DictHas(OwnerMapping(i), pid_list[i][k]))
        => /\ future[i].st = "returned"
           /\ \A j \in 1..Len(AllProcs(future[i].report)) :
                 LET p == AllProcs(future[i].report)[j]
                 IN IF DictHas(OwnerMapping(i), p.pid)
                    THEN "user" \in DOMAIN p /\ p.user = DictGet(OwnerMapping(i), p.pid)
                    ELSE "user" \notin DOMAIN p

(***************************************************************************)
(* C7: when the owner query prints exactly one user line per requested pid *)
(* in request order, every process entry of the report gets the user that  *)
(* was printed for its pid, whatever the order of the pid list.            *)
(***************************************************************************)
OneLinePerPid(i) ==
    /\ OwnerSucceeded(i)
    /\ own_proc[i].output = ps_output(owner_cmd(pid_list[i]), Range(owner_cmd(pid_list[i])))
C7_UsersMatchPids ==
    \A i \in Tasks : OneLinePerPid(i) =>
        /\ future[i].st = "returned"
        /\ LET procs == AllProcs(future[i].report)
           IN /\ ProcsWithoutUser(procs) = AllProcs(host_gpu_usage[i])
              /\ \A j \in 1..Len(procs) :
                    "user" \in DOMAIN procs[j] /\ procs[j].user = PyStr(OwnerOf(procs[j].pid.v))
C7_Witness ==
    \E i \in Tasks :
        /\ OneLinePerPid(i) /\ future[i].st = "returned"
        /\ Len(pid_list[i]) = 3
        /\ Len(future[i].report) = 2
        /\ AllProcs(future[i].report)[1].pid # pid_list[i][1]
        /\ \E j \in 1..Len(future[i].report[2][2].processes) :
              future[i].report[2][2].processes[j].pid = future[i].report[1][2].processes[1].pid

(***************************************************************************)
(* C8: when the owner query succeeds with a number of output lines that    *)
(* differs from the number of requested pids, the resolution counts as     *)
(* failed: the report is returned and no process entry gets a user.        *)
(***************************************************************************)
LineCount(output) == Cardinality({k \in 1..Len(output) : output[k] = "\n"})
C8_LineCountMismatchFailsSafe ==
    \A i \in Tasks :
        (OwnerSucceeded(i) /\ LineCount(own_proc[i].output) # Len(pid_list[i]))
        => /\ future[i].st = "returned"
           /\ \A j \in 1..Len(AllProcs(future[i].report)) :
                 "user" \notin DOMAIN AllProcs(future[i].report)[j]

(***************************************************************************)
(* C9: a device report with exactly one device yields a report with        *)
(* exactly one device entry, of the same shape and content as the entry    *)
(* of that device in a report of several devices.                          *)
(***************************************************************************)
C9_SingleDeviceReport ==
    \A i \in Tasks :
        (DeviceSucceeded(i) /\ pc[i] = "done" /\ dev_proc[i].output \notin MalformedReports
            /\ Len(GpuElems(dev_proc[i].output)) = 1)
        => LET g == GpuElems(dev_proc[i].output)[1]
           IN /\ ExtractionDone(i)
              /\ Len(host_gpu_usage[i]) = 1
              /\ host_gpu_usage[i][1][1] = ReportedDevice(g)
              /\ host_gpu_usage[i][1][2] =
                    [driver_version |-> PyStr(DriverVersion), cuda_version |-> PyStr(CudaVersion),
                     memory |-> ReportedMemory, processes |-> ReportedProcs(g)]

(***************************************************************************)
(* C10: for a device report with several devices the report has one entry  *)
(* per device, and the processes sequence of a device with k >= 1 process  *)
(* entries has exactly these k entries in report order, also for k = 1.    *)
(***************************************************************************)
SeveralDevices(i) ==
    /\ DeviceSucceeded(i)
    /\ dev_proc[i].output \notin MalformedReports
    /\ Len(GpuElems(dev_proc[i].output)) >= 2
EntryPerDevice(i) ==
    LET gpus == GpuElems(dev_proc[i].output)
    IN /\ ExtractionDone(i)
       /\ Len(host_gpu_usage[i]) = Len(gpus)
       /\ \A a \in 1..Len(gpus) :
             /\ host_gpu_usage[i][a][1] = ReportedDevice(gpus[a])
             /\ host_gpu_usage[i][a][2].processes = ReportedProcs(gpus[a])
C10_EntryPerDevice == \A i \in Tasks : SeveralDevices(i) => EntryPerDevice(i)
\* C10 as amended: for a device report with several devices whose device
\* identifiers are pairwise distinct, the report has one entry per device
\* and every device has exactly its process entries in report order.
C10_EntryPerDistinctDevice ==
    \A i \in Tasks :
        (SeveralDevices(i) /\ DistinctDevices(GpuElems(dev_proc[i].output)))
            => EntryPerDevice(i)
C10_Witness ==
    \E i \in Tasks :
        /\ SeveralDevices(i) /\ DistinctDevices(GpuElems(dev_proc[i].output))
        /\ ExtractionDone(i)
        /\ Len(host_gpu_usage[i][1][2].processes) = 2
        /\ Len(host_gpu_usage[i][2][2].processes) = 1

(***************************************************************************)
(* C11: when the device query succeeds and the report lists zero devices,  *)
(* the task returns the empty report without raising, and no owner query   *)
(* is issued.                                                              *)
(***************************************************************************)
C11_ZeroDevicesEmptyReport ==
    \A i \in Tasks :
        (DeviceSucceeded(i) /\ dev_proc[i].output \notin MalformedReports
            /\ Len(GpuElems(dev_proc[i].output)) = 0)
        => /\ future[i] = Returned(<<>>)
           /\ own_proc[i] = NoProc

(***************************************************************************)
(* C12: do_cmd returns without raising for every command and every         *)
(* outcome of the child: (True, output) exactly when the child exits 0     *)
(* within the timeout, and (False, "") with no partial output when it      *)
(* exits non-zero, fails at process level or times out; every query of a   *)
(* task is one do_cmd call, never a second attempt.                        *)
(***************************************************************************)
do_cmd_returns(proc) ==
    do_cmd(proc) = Ok(IF proc.kind = "exit0"
                      THEN [ret |-> TRUE, output |-> proc.output]
                      ELSE [ret |-> FALSE, output |-> EmptyOutput])
C12_DoCmdNeverRaises ==
    \A i \in Tasks :
        /\ dev_proc[i] # NoProc =>
              do_cmd_returns(dev_proc[i]) /\ calls[i][1] = device_cmd
        /\ own_proc[i] # NoProc =>
              do_cmd_returns(own_proc[i]) /\ Len(calls[i]) = 2

\* The fleet poll under fair scheduling: the pool's threads and the main
\* thread keep running, and every remote call ends (do_cmd's timeout), so a
\* step that is possible is eventually taken.
SpecFair == Init /\ [][Next]_vars /\ WF_vars(Next)

(***************************************************************************)
(* C13: under fair scheduling every fleet poll eventually reaches the      *)
(* terminal state in which all hosts are accounted for: every task has     *)
(* finished, none is left pending, and the poll has returned one slot per  *)
(* host, each a populated or empty report.                                 *)
(***************************************************************************)
C13_PollTerminates ==
    <>(/\ poll = "returned"
       /\ Len(results) = Len(hosts)
       /\ \A i \in Tasks : pc[i] = "done" /\ future[i].st = "returned")

(***************************************************************************)
(* C14: a host task issues exactly one device query, first; an owner query *)
(* only after the device query has succeeded with a non-empty pid set, at  *)
(* most once, carrying every distinct pid of the device report once; so a  *)
(* task makes at most two remote calls, one after the other.               *)
(***************************************************************************)
\* The pid list is compared with the device report when the task is about
\* to issue the owner query; the command logged is compared with the list.
PidsOf(procs) == {Child(procs[j], "pid").text.v : j \in 1..Len(procs)}
DocPids(gpus) == UNION {PidsOf(ProcElems(gpus[a])) : a \in 1..Len(gpus)}
C14_QueryProtocol ==
    \A i \in Tasks :
        /\ Len(calls[i]) <= 2
        /\ calls[i] = <<>> <=> pc[i] \in {"new", "queued", "device", "cancelled"}
        /\ calls[i] # <<>> => calls[i][1] = device_cmd
        /\ pc[i] = "owner" =>
              /\ Len(calls[i]) = 1 /\ DeviceSucceeded(i)
              /\ pid_list[i] # <<>>
              /\ Range(pid_list[i]) = {PyStr(p) : p \in DocPids(GpuElems(dev_proc[i].output))}
              /\ Len(pid_list[i]) = Cardinality(Range(pid_list[i]))
        /\ Len(calls[i]) = 2 =>
              /\ DeviceSucceeded(i)
              /\ pc[i] = "done"
              /\ calls[i][2].query = "owner"
              /\ calls[i][2].pids = [k \in 1..Len(pid_list[i]) |-> pid_list[i][k].v]
              /\ Len(calls[i][2].pids) = Cardinality(Range(calls[i][2].pids))
              /\ calls[i][2].pids # <<>>
C14_Witness ==
    \E i \in Tasks :
        /\ pc[i] = "done" /\ Len(calls[i]) = 2
        /\ Len(calls[i][2].pids) = 3
        /\ Len(AllProcs(host_gpu_usage[i])) = 4

(***************************************************************************)
(* C15: host tasks share no mutable state.  The step in which a query of   *)
(* host i ends sets the data of task i from the outcome of that query and  *)
(* from what task i has computed before, and leaves the data of every      *)
(* other task alone; no other step changes the data of a task, except that *)
(* a task not yet started is cancelled; and slot i of the results is the   *)
(* report that task i returned.  So for given outcomes of the remote calls *)
(* the results are the same for every interleaving and every max_workers.  *)
(***************************************************************************)
OthersUntouched(i) == \A j \in Tasks \ {i} : TaskLocal(j)' = TaskLocal(j)
device_step_of(i, s) ==
    /\ future'[i] = s.result
    /\ host_gpu_usage'[i] = s.usage
    /\ Range(pid_list'[i]) = s.pids
    /\ own_proc'[i] = own_proc[i]
C15_TaskStep(i) ==
    /\ dev_proc'[i] # dev_proc[i] =>
          device_step_of(i, device_stage(dev_proc'[i])) /\ OthersUntouched(i)
    /\ own_proc'[i] # own_proc[i] =>
          /\ future'[i] = owner_stage(host_gpu_usage[i], pid_list[i], own_proc'[i])
          /\ <<dev_proc'[i], host_gpu_usage'[i], pid_list'[i]>> =
                <<dev_proc[i], host_gpu_usage[i], pid_list[i]>>
          /\ OthersUntouched(i)
    /\ (dev_proc'[i] = dev_proc[i] /\ own_proc'[i] = own_proc[i]) =>
          /\ <<host_gpu_usage'[i], pid_list'[i]>> = <<host_gpu_usage[i], pid_list[i]>>
          /\ future'[i] = future[i] \/ (pc[i] = "queued" /\ future'[i] = Cancelled)
C15_ResultsStep ==
    results' # results =>
        /\ Len(results) < Len(hosts)
        /\ future[Len(results) + 1].st = "returned"
        /\ results' = Append(results, future[Len(results) + 1].report)
C15_TasksShareNoState == [][C15_ResultsStep /\ \A i \in Tasks : C15_TaskStep(i)]_vars
C15_Witness ==
    \E i, j \in Tasks :
        /\ i < j /\ poll = "returned" /\ max_workers >= 2
        /\ OwnerSucceeded(i) /\ own_proc[j] # NoProc /\ own_proc[i] # own_proc[j]
        /\ AllProcs(results[i]) # <<>> /\ AllProcs(results[j]) # <<>>
        /\ results[i] # results[j]

(***************************************************************************)
(* C16: every device of a report of several devices that has no process    *)
(* entry still has its entry in the host's report, with its memory         *)
(* statistics and an empty processes sequence, and adds no pid to the pid  *)
(* set; when no device has a process entry, no owner query is issued.      *)
(***************************************************************************)
NoProcesses(g) == ProcElems(g) = <<>>
EmptyEntry(i, g) ==
    /\ DictHas(host_gpu_usage[i], ReportedDevice(g))
    /\ DictGet(host_gpu_usage[i], ReportedDevice(g)).memory = ReportedMemory
    /\ DictGet(host_gpu_usage[i], ReportedDevice(g)).processes = <<>>
NoOwnerQueryWithoutPids(i, gpus) ==
    (\A a \in 1..Len(gpus) : NoProcesses(gpus[a]))
        => /\ pc[i] = "done" /\ future[i] = Returned(host_gpu_usage[i])
           /\ own_proc[i] = NoProc /\ Len(calls[i]) = 1
ZeroProcessDevices(i, gpus, devices) ==
    /\ ExtractionDone(i)
    /\ Range(pid_list[i]) = {PyStr(p) : p \in DocPids(gpus)}
    /\ NoOwnerQueryWithoutPids(i, gpus)
    /\ \A a \in devices : NoProcesses(gpus[a]) => EmptyEntry(i, gpus[a])
\* once the owner query has ended: it was issued for some pid, and a report
\* that is returned has the entries without processes of the extraction
EmptyEntriesKept(i) ==
    /\ pid_list[i] # <<>>
    /\ future[i].st = "returned" =>
          /\ Len(future[i].report) = Len(host_gpu_usage[i])
          /\ \A d \in 1..Len(host_gpu_usage[i]) :
                host_gpu_usage[i][d][2].processes = <<>>
                    => future[i].report[d] = host_gpu_usage[i][d]
\* The device report is compared with the extraction in the states in which
\* the owner query has not ended, which every task passes through.
C16_ZeroProcessDevice ==
    \A i \in Tasks :
        /\ (own_proc[i] = NoProc /\ SeveralDevices(i)) =>
              ZeroProcessDevices(i, GpuElems(dev_proc[i].output),
                                 1..Len(GpuElems(dev_proc[i].output)))
        /\ own_proc[i] # NoProc => EmptyEntriesKept(i)
\* C16 as amended: the entry with the empty processes sequence is that of
\* every device without process entries whose device identifier no later
\* device of the report repeats.
C16_ZeroProcessLastOfDevice ==
    \A i \in Tasks :
        /\ (own_proc[i] = NoProc /\ SeveralDevices(i)) =>
              ZeroProcessDevices(i, GpuElems(dev_proc[i].output),
                                 LastOfDevice(GpuElems(dev_proc[i].output)))
        /\ own_proc[i] # NoProc => EmptyEntriesKept(i)
C16_Witness ==
    \E i \in Tasks :
        /\ SeveralDevices(i) /\ pc[i] = "done" /\ future[i].st = "returned"
        /\ Len(future[i].report) = 2
        /\ future[i].report[1][2].processes = <<>>
        /\ Len(future[i].report[2][2].processes) = 2
        /\ OwnerSucceeded(i)
C16_WitnessNoProcesses ==
    \E i \in Tasks :
        /\ SeveralDevices(i) /\ pc[i] = "done" /\ future[i].st = "returned"
        /\ Len(future[i].report) = 2
        /\ \A d \in 1..2 : future[i].report[d][2].processes = <<>>

(***************************************************************************)
(* C17: etree_to_dict maps every node that has children to a mapping that  *)
(* has one key per distinct child tag, in first-seen order; the value of a *)
(* key is the normalized form of the child when one child has that tag,    *)
(* and the sequence of the normalized forms of all children of that tag,   *)
(* in document order, when several have it.  (The keys of the node's       *)
(* attributes and text follow the keys of the child tags.)                 *)
(***************************************************************************)
Normalized(t) == etree_to_dict(t).v[1][2]
RECURSIVE DistinctTags(_)
DistinctTags(children) ==
    IF children = <<>> THEN <<>>
    ELSE IF \E k \in 1..(Len(children) - 1) : children[k].tag = children[Len(children)].tag
         THEN DistinctTags(SubSeq(children, 1, Len(children) - 1))
         ELSE Append(DistinctTags(SubSeq(children, 1, Len(children) - 1)),
                     children[Len(children)].tag)
RECURSIVE WithTag(_, _)
WithTag(children, tag) ==
    IF children = <<>> THEN <<>>
    ELSE (IF children[1].tag = tag THEN <<children[1]>> ELSE <<>>) \o WithTag(Tail(children), tag)
NormalizedAll(cs) == [k \in 1..Len(cs) |-> Normalized(cs[k])]
GroupValue(cs) == IF Len(cs) = 1 THEN Normalized(cs[1]) ELSE PyList(NormalizedAll(cs))
KeyPerChildTag(t, m, tags) ==
    /\ m.t = "dict"
    /\ Len(m.v) = Len(tags) + Len(t.attrib)
                    + (IF Truthy(t.text) /\ strip(t.text.v) # <<>> THEN 1 ELSE 0)
    /\ \A k \in 1..Len(tags) : m.v[k] = <<tags[k], GroupValue(WithTag(t.children, tags[k]))>>
    /\ \A k \in (Len(tags) + 1)..Len(m.v) : \A c \in 1..Len(tags) : m.v[k][1] # tags[c]
RECURSIVE EveryNode(_)
EveryNode(t) ==
    /\ t.children # <<>> => KeyPerChildTag(t, Normalized(t), DistinctTags(t.children))
    /\ \A k \in 1..Len(t.children) : EveryNode(t.children[k])
C17_KeyPerChildTag ==
    tree_dict # PyNone =>
        /\ tree_dict.t = "dict" /\ Len(tree_dict.v) = 1 /\ tree_dict.v[1][1] = tree.tag
        /\ tree.children # <<>> =>
              KeyPerChildTag(tree, tree_dict.v[1][2], DistinctTags(tree.children))
        /\ \A k \in 1..Len(tree.children) : EveryNode(tree.children[k])
C17_Witness ==
    /\ tree_dict # PyNone
    /\ Len(tree.children) = 2
    /\ tree.children[1].tag = tree.children[2].tag
    /\ Normalized(tree.children[1]) # Normalized(tree.children[2])
    /\ tree.attrib # <<>>
    /\ tree_dict.v[1][2].v[1][2].t = "list"
C17_WitnessNested ==
    /\ tree_dict # PyNone
    /\ tree.children = <<Nested>>
    /\ tree_dict.v[1][2].v[1][2].t = "dict"

(***************************************************************************)
(* C18: owner enrichment changes nothing but the user field: whether the   *)
(* owner query was not issued, failed or succeeded, the report that the    *)
(* task returns has the device identifiers, versions, memory statistics    *)
(* and the (pid, used_memory) entries, in their order, of the extraction.  *)
(***************************************************************************)
SameButUser(report, usage) ==
    /\ Len(report) = Len(usage)
    /\ \A d \in 1..Len(usage) :
          /\ report[d][1] = usage[d][1]
          /\ DOMAIN report[d][2] = DOMAIN usage[d][2]
          /\ report[d][2].driver_version = usage[d][2].driver_version
          /\ report[d][2].cuda_version = usage[d][2].cuda_version
          /\ report[d][2].memory = usage[d][2].memory
          /\ ProcsWithoutUser(report[d][2].processes) = usage[d][2].processes
C18_EnrichmentKeepsEntries ==
    \A i \in Tasks :
        (ExtractionDone(i) /\ pc[i] = "done" /\ future[i].st = "returned")
            => SameButUser(future[i].report, host_gpu_usage[i])
C18_Witness ==
    \E i \in Tasks :
        /\ ExtractionDone(i) /\ pc[i] = "done" /\ future[i].st = "returned"
        /\ OwnerSucceeded(i)
        /\ Len(AllProcs(future[i].report)) = 3
        /\ \A j \in 1..3 : "user" \in DOMAIN AllProcs(future[i].report)[j]
        /\ AllProcs(future[i].report)[2].user = PyStr(<<>>)

(***************************************************************************)
(* C19: the set of pids sent to the owner query is exactly the set of the  *)
(* pids that appear in the processes of some device of the host's report,  *)
(* each distinct pid once, also for a pid on several devices and also when *)
(* two devices of the device report have the same device identifier.       *)
(***************************************************************************)
ReportPids(report) == {AllProcs(report)[j].pid : j \in 1..Len(AllProcs(report))}
RequestedOnce(i) == Len(pid_list[i]) = Cardinality(Range(pid_list[i]))
C19_RequestedPidsAreReportPids ==
    \A i \in Tasks : (ExtractionDone(i) /\ pc[i] \in {"owner", "done"}) =>
        /\ RequestedOnce(i)
        /\ Range(pid_list[i]) = ReportPids(host_gpu_usage[i])
        /\ Len(calls[i]) = 2 => Range(calls[i][2].pids) = {p.v : p \in Range(pid_list[i])}
\* C19 as amended: every pid of the report is among the requested pids,
\* each distinct pid is requested once, and the requested pids are exactly
\* those of the report when the device identifiers of the device report are
\* pairwise distinct.
C19_RequestedPidsCoverReport ==
    \A i \in Tasks : (ExtractionDone(i) /\ pc[i] \in {"owner", "done"}) =>
        /\ RequestedOnce(i)
        /\ ReportPids(host_gpu_usage[i]) \subseteq Range(pid_list[i])
        /\ Range(pid_list[i]) # ReportPids(host_gpu_usage[i])
              => ~DistinctDevices(GpuElems(dev_proc[i].output))
        /\ Len(calls[i]) = 2 => Range(calls[i][2].pids) = {p.v : p \in Range(pid_list[i])}
C19_Witness ==
    \E i \in Tasks :
        /\ ExtractionDone(i) /\ pc[i] = "done" /\ Len(calls[i]) = 2
        /\ DistinctDevices(GpuElems(dev_proc[i].output))
        /\ Len(host_gpu_usage[i]) = 2
        /\ Len(pid_list[i]) = 2
        /\ Len(AllProcs(host_gpu_usage[i])) = 3
C19_WitnessSameDevice ==
    \E i \in Tasks :
        /\ ExtractionDone(i) /\ pc[i] = "done" /\ Len(calls[i]) = 2
        /\ Len(GpuElems(dev_proc[i].output)) = 2
        /\ Len(host_gpu_usage[i]) = 1
        /\ ReportPids(host_gpu_usage[i]) # Range(pid_list[i])

====
